---- MODULE Spec2Model ----
(***************************************************************************)
(* Word magic squares (src/src/main.rs, src/src/dictionary.rs).            *)
(*                                                                         *)
(* Dictionary: a HashSet<String> with contains, search_with_template and   *)
(* count_with_template.  MagicSquare: a Vec<Vec<char>> filled by the       *)
(* recursive fill_helper.  Characters are Unicode code points; a string is *)
(* a sequence of code points, and str::len() is its UTF-8 byte length.     *)
(* Rows and columns are numbered from 0 as in the source; a sequence of    *)
(* the model is indexed from 1, so cell (row, col) is                      *)
(* square[row + 1][col + 1].                                               *)
(*                                                                         *)
(* Every fill_helper invocation is one frame of `stack`; the value the     *)
(* most recently returned invocation handed to its caller is `ret`.        *)
(***************************************************************************)
EXTENDS Integers, Sequences, FiniteSets, TLC

\* ------------------------------------------------------------------ bounds
\* The letters tried are 'a', .., 'a' + NumLetters - 1 (the source: 'a'..='z').
NumLetters == 2
\* Grids have at most MaxRows rows and MaxCols columns.
MaxRows == 2
MaxCols == 2
\* A dictionary of the search holds at most MaxWords words.
MaxWords == 2
\* The caller pre-sets at most MaxPreset cells before fill().
MaxPreset == 1

\* ------------------------------------------------------------- characters
\* '_' (U+005F), the wildcard / empty marker.
Wildcard == 95
\* 'a' (U+0061), the first letter tried.
LetterA == 97

\* char::to_lowercase for the Basic Latin and Latin-1 letters.
CharToLower(c) ==
    IF (c >= 65 /\ c <= 90) \/ (c >= 192 /\ c <= 214) \/ (c >= 216 /\ c <= 222)
    THEN c + 32
    ELSE c

\* str::to_lowercase.
to_lowercase(s) == [i \in 1..Len(s) |-> CharToLower(s[i])]

\* The number of bytes of one char in UTF-8.
Utf8Len(c) == IF c < 128 THEN 1 ELSE IF c < 2048 THEN 2 ELSE 3

\* str::len(): the length in bytes.
RECURSIVE ByteLen(_)
ByteLen(s) == IF s = <<>> THEN 0 ELSE Utf8Len(Head(s)) + ByteLen(Tail(s))

\* ------------------------------------------------------------- Dictionary
\* Dictionary::contains: exact membership.
contains(dict, word) == word \in dict

\* The filter closure of search_with_template after the length test: walk
\* the template's chars, advancing the word's char iterator once per char.
RECURSIVE MatchChars(_, _)
MatchChars(word, tmp) ==
    IF tmp = <<>> THEN TRUE
    ELSE IF Head(tmp) = Wildcard
         THEN MatchChars(IF word = <<>> THEN <<>> ELSE Tail(word), Tail(tmp))
         ELSE /\ word # <<>>
              /\ Head(word) = Head(tmp)
              /\ MatchChars(Tail(word), Tail(tmp))

\* The whole filter closure: byte lengths first, then the chars.
TemplateMatches(word, template) ==
    LET tmp == to_lowercase(template)
    IN  /\ ByteLen(word) = ByteLen(tmp)
        /\ MatchChars(word, tmp)

\* Dictionary::search_with_template (the Vec holds each stored word once).
search_with_template(dict, template) ==
    {word \in dict : TemplateMatches(word, template)}

\* Dictionary::count_with_template.
count_with_template(dict, template) ==
    Cardinality(search_with_template(dict, template))

\* Dictionary::from_file: the lines as they are.
from_file(lines) == lines

\* Dictionary::from_os_dict: the lines, lowercased.
from_os_dict(lines) == {to_lowercase(l) : l \in lines}

\* ------------------------------------------------------------ MagicSquare
\* MagicSquare::empty.
empty(rows, cols) == [r \in 1..rows |-> [c \in 1..cols |-> Wildcard]]

\* MagicSquare::get.
get(sq, row, col) == sq[row + 1][col + 1]

\* MagicSquare::set.
set(sq, row, col, c) == [sq EXCEPT ![row + 1][col + 1] = c]

\* MagicSquare::get_row.
get_row(sq, row) == sq[row + 1]

\* MagicSquare::get_col.
get_col(sq, col) == [r \in 1..Len(sq) |-> sq[r][col + 1]]

\* The cells of a grid, as (row, col) pairs.
Cells(sq) ==
    UNION {{<<r, c>> : c \in 0..(Len(sq[r + 1]) - 1)} : r \in 0..(Len(sq) - 1)}

\* Row-major order on cells.
Before(a, b) == a[1] < b[1] \/ (a[1] = b[1] /\ a[2] < b[2])

\* Option::None, for a cell.
None == <<>>

\* MagicSquare::find_first_empty_square.
find_first_empty_square(sq) ==
    LET holes == {rc \in Cells(sq) : get(sq, rc[1], rc[2]) = Wildcard}
    IN  IF holes = {} THEN None
        ELSE CHOOSE rc \in holes : \A other \in holes \ {rc} : Before(rc, other)

\* MagicSquare::is_valid_word_or_template.
is_valid_word_or_template(dict, word) ==
    \/ contains(dict, word)
    \/ count_with_template(dict, word) > 0

\* MagicSquare::is_valid_letter.
is_valid_letter(dict, sq, row, col, c) ==
    LET ww  == [i \in 1..Len(get_row(sq, row)) |->
                   IF i = col + 1 THEN c ELSE get_row(sq, row)[i]]
        www == [i \in 1..Len(get_col(sq, col)) |->
                   IF i = row + 1 THEN c ELSE get_col(sq, col)[i]]
    IN  /\ is_valid_word_or_template(dict, ww)
        /\ is_valid_word_or_template(dict, www)

\* Variant of Alphabet: the letters tried from the last to the first.
AlphabetReversed == [i \in 1..NumLetters |-> LetterA + NumLetters - i]
\* The letters of `for c in 'a'..='z'`, in the order tried.
Alphabet == [i \in 1..NumLetters |-> LetterA + i - 1]

\* Result<(), String>: Ok(()) and Err("Could not fill square at (row, col)").
NoRet == [kind |-> "none", row |-> 0, col |-> 0]
Ok == [kind |-> "Ok", row |-> 0, col |-> 0]
Err(row, col) == [kind |-> "Err", row |-> row, col |-> col]

\* A fresh fill_helper(row, col) invocation.
Frame(row, col) == [row |-> row, col |-> col, pc |-> "entry", c |-> 1]

\* ------------------------------------------------------------------ state
VARIABLES
    words,          \* Dictionary.words
    square,         \* MagicSquare.square
    stack,          \* the active fill_helper invocations, innermost last
    ret,            \* the value just returned to the innermost invocation
    status,         \* "init", "running", "Ok", "Err", "panic"; "dict", "searched"
    errAt,          \* the (row, col) of the Err fill() returned
    square0,        \* history: the grid when fill() was called
    firstExhausted, \* history: the first cell whose 26 letters all failed
    touched,        \* history: the cells the search assigned a letter to
    template,       \* the argument of the last search_with_template call
    found           \* its result

vars == <<words, square, stack, ret, status, errAt, square0, firstExhausted,
          touched, template, found>>

Top == stack[Len(stack)]
Pop == SubSeq(stack, 1, Len(stack) - 1)
SetTop(f) == [stack EXCEPT ![Len(stack)] = f]

\* ---------------------------------------------------------- input domains
Letters == {Alphabet[i] : i \in 1..NumLetters}

\* The words a dictionary of the search is drawn from.
WordPool ==
    {<<97>>, <<98>>,
     <<97, 97>>, <<97, 98>>, <<98, 97>>, <<98, 98>>,
     <<97, 97, 97>>, <<97, 98, 97>>}

Dictionaries == {d \in SUBSET WordPool : Cardinality(d) <= MaxWords}

NumPreset(sq) ==
    Cardinality({rc \in Cells(sq) : get(sq, rc[1], rc[2]) # Wildcard})

\* --------------------------------------------------------------- the search
\* The state after `MagicSquare::empty(rows, cols, &dict)`.
Init ==
    /\ words \in Dictionaries
    /\ \E rows \in 0..MaxRows, cols \in 0..MaxCols : square = empty(rows, cols)
    /\ stack = <<>>
    /\ ret = NoRet
    /\ status = "init"
    /\ errAt = None
    /\ square0 = square
    /\ firstExhausted = None
    /\ touched = {}
    /\ template = <<>>
    /\ found = {}

\* square.set(row, col, c) by the caller, before fill() (main's first word).
Set(row, col, c) ==
    /\ status = "init"
    /\ <<row, col>> \in Cells(square)
    /\ get(square, row, col) = Wildcard
    /\ NumPreset(square) < MaxPreset
    /\ square' = set(square, row, col, c)
    /\ square0' = square'
    /\ UNCHANGED <<words, stack, ret, status, errAt, firstExhausted, touched,
                   template, found>>

\* The caller calls fill().
Fill ==
    /\ status = "init"
    /\ status' = "running"
    /\ square0' = square
    /\ UNCHANGED <<words, square, stack, ret, errAt, firstExhausted, touched,
                   template, found>>

\* fill(): find_first_empty_square() is None and unwrap() panics.
FillUnwrapNone ==
    /\ status = "running" /\ stack = <<>> /\ ret = NoRet
    /\ find_first_empty_square(square) = None
    /\ status' = "panic"
    /\ UNCHANGED <<words, square, stack, ret, errAt, square0, firstExhausted,
                   touched, template, found>>

\* fill(): the first empty square is (row, col); call fill_helper(row, col).
FillStart ==
    /\ status = "running" /\ stack = <<>> /\ ret = NoRet
    /\ find_first_empty_square(square) # None
    /\ LET rc == find_first_empty_square(square)
       IN  stack' = <<Frame(rc[1], rc[2])>>
    /\ UNCHANGED <<words, square, ret, status, errAt, square0, firstExhausted,
                   touched, template, found>>

\* fill_helper: `if row == self.square.len() { return Ok(()) }`.
HelperEndOfSquare ==
    /\ stack # <<>> /\ Top.pc = "entry"
    /\ Top.row = Len(square)
    /\ stack' = Pop
    /\ ret' = Ok
    /\ UNCHANGED <<words, square, status, errAt, square0, firstExhausted,
                   touched, template, found>>

\* Variant of HelperEndOfRow: the call is fill_helper(row, 0).
HelperEndOfRowStuck ==
    /\ stack # <<>> /\ Top.pc = "entry"
    /\ Top.row < Len(square)
    /\ Top.col = Len(square[Top.row + 1])
    /\ stack' = Append(SetTop([Top EXCEPT !.pc = "tail"]), Frame(Top.row, 0))
    /\ UNCHANGED <<words, square, ret, status, errAt, square0, firstExhausted,
                   touched, template, found>>
\* fill_helper: `if col == self.square[row].len()`: call fill_helper(row + 1, 0).
HelperEndOfRow ==
    /\ stack # <<>> /\ Top.pc = "entry"
    /\ Top.row < Len(square)
    /\ Top.col = Len(square[Top.row + 1])
    /\ stack' = Append(SetTop([Top EXCEPT !.pc = "tail"]), Frame(Top.row + 1, 0))
    /\ UNCHANGED <<words, square, ret, status, errAt, square0, firstExhausted,
                   touched, template, found>>

\* fill_helper: `return self.fill_helper(row + 1, 0)`: hand the callee's result on.
HelperEndOfRowReturn ==
    /\ stack # <<>> /\ Top.pc = "tail"
    /\ ret # NoRet
    /\ stack' = Pop
    /\ UNCHANGED <<words, square, ret, status, errAt, square0, firstExhausted,
                   touched, template, found>>

\* fill_helper: enter `for c in 'a'..='z'`.
HelperBeginLoop ==
    /\ stack # <<>> /\ Top.pc = "entry"
    /\ Top.row < Len(square)
    /\ Top.col < Len(square[Top.row + 1])
    /\ stack' = SetTop([Top EXCEPT !.pc = "loop", !.c = 1])
    /\ UNCHANGED <<words, square, ret, status, errAt, square0, firstExhausted,
                   touched, template, found>>

\* fill_helper: the letter is not valid here; on to the next one.
HelperSkipLetter ==
    /\ stack # <<>> /\ Top.pc = "loop"
    /\ Top.c <= Len(Alphabet)
    /\ ~is_valid_letter(words, square, Top.row, Top.col, Alphabet[Top.c])
    /\ stack' = SetTop([Top EXCEPT !.c = Top.c + 1])
    /\ UNCHANGED <<words, square, ret, status, errAt, square0, firstExhausted,
                   touched, template, found>>

\* fill_helper: the letter is valid; set it and call fill_helper(row, col + 1).
HelperTryLetter ==
    /\ stack # <<>> /\ Top.pc = "loop"
    /\ Top.c <= Len(Alphabet)
    /\ is_valid_letter(words, square, Top.row, Top.col, Alphabet[Top.c])
    /\ square' = set(square, Top.row, Top.col, Alphabet[Top.c])
    /\ touched' = touched \cup {<<Top.row, Top.col>>}
    /\ stack' = Append(SetTop([Top EXCEPT !.pc = "wait"]),
                       Frame(Top.row, Top.col + 1))
    /\ UNCHANGED <<words, ret, status, errAt, square0, firstExhausted,
                   template, found>>

\* fill_helper: `if let Ok(()) = self.fill_helper(..) { return Ok(()) }`.
HelperCalleeOk ==
    /\ stack # <<>> /\ Top.pc = "wait"
    /\ ret.kind = "Ok"
    /\ stack' = Pop
    /\ UNCHANGED <<words, square, ret, status, errAt, square0, firstExhausted,
                   touched, template, found>>

\* Variant of HelperCalleeErr: the callee's Err is returned at once (`?`).
HelperCalleeErrPropagated ==
    /\ stack # <<>> /\ Top.pc = "wait"
    /\ ret.kind = "Err"
    /\ stack' = Pop
    /\ UNCHANGED <<words, square, ret, status, errAt, square0, firstExhausted,
                   touched, template, found>>
\* fill_helper: the callee returned Err; the Err is dropped, the loop goes on.
HelperCalleeErr ==
    /\ stack # <<>> /\ Top.pc = "wait"
    /\ ret.kind = "Err"
    /\ stack' = SetTop([Top EXCEPT !.pc = "loop", !.c = Top.c + 1])
    /\ ret' = NoRet
    /\ UNCHANGED <<words, square, status, errAt, square0, firstExhausted,
                   touched, template, found>>

\* Variant of HelperExhausted: the cell keeps the last letter set.
HelperExhaustedNoReset ==
    /\ stack # <<>> /\ Top.pc = "loop"
    /\ Top.c > Len(Alphabet)
    /\ ret' = Err(Top.row, Top.col)
    /\ firstExhausted' =
           IF firstExhausted = None THEN <<Top.row, Top.col>> ELSE firstExhausted
    /\ stack' = Pop
    /\ UNCHANGED <<words, square, status, errAt, square0, touched, template,
                   found>>
\* fill_helper: every letter tried; `self.set(row, col, '_')` and return Err.
HelperExhausted ==
    /\ stack # <<>> /\ Top.pc = "loop"
    /\ Top.c > Len(Alphabet)
    /\ square' = set(square, Top.row, Top.col, Wildcard)
    /\ ret' = Err(Top.row, Top.col)
    /\ firstExhausted' =
           IF firstExhausted = None THEN <<Top.row, Top.col>> ELSE firstExhausted
    /\ stack' = Pop
    /\ UNCHANGED <<words, status, errAt, square0, touched, template, found>>

\* fill(): fill_helper's result is fill()'s result.
FillReturn ==
    /\ status = "running" /\ stack = <<>> /\ ret # NoRet
    /\ status' = ret.kind
    /\ errAt' = IF ret.kind = "Err" THEN <<ret.row, ret.col>> ELSE None
    /\ ret' = NoRet
    /\ UNCHANGED <<words, square, stack, square0, firstExhausted, touched,
                   template, found>>

Next ==
    \/ \E row \in 0..(MaxRows - 1), col \in 0..(MaxCols - 1), c \in Letters :
          Set(row, col, c)
    \/ Fill
    \/ FillUnwrapNone
    \/ FillStart
    \/ HelperEndOfSquare
    \/ HelperEndOfRow
    \/ HelperEndOfRowReturn
    \/ HelperBeginLoop
    \/ HelperSkipLetter
    \/ HelperTryLetter
    \/ HelperCalleeOk
    \/ HelperCalleeErr
    \/ HelperExhausted
    \/ FillReturn

Spec == Init /\ [][Next]_vars

\* fill() runs on the calling thread: once called, it takes its next step.
FairSpec == Spec /\ WF_vars(Next)

\* ---------------------------------------------------- loading and querying
\* The lines a word source may hold: "a", "ab", "ba", "Ab", "é" (U+00E9).
LinePool == {<<97>>, <<97, 98>>, <<98, 97>>, <<65, 98>>, <<233>>}

\* The templates queried: one or two chars among '_', 'a', 'b', 'A'.
TemplateChars == {Wildcard, 97, 98, 65}
Templates == UNION {[1..n -> TemplateChars] : n \in 1..2}

\* Before the dictionary is loaded.
DictInit ==
    /\ words = {}
    /\ square = <<>>
    /\ stack = <<>>
    /\ ret = NoRet
    /\ status = "dict"
    /\ errAt = None
    /\ square0 = <<>>
    /\ firstExhausted = None
    /\ touched = {}
    /\ template = <<>>
    /\ found = {}

\* Dictionary::from_file(path), the file holding `lines`.
FromFile(lines) ==
    /\ status = "dict"
    /\ words' = from_file(lines)
    /\ status' = "loaded"
    /\ UNCHANGED <<square, stack, ret, errAt, square0, firstExhausted, touched,
                   template, found>>

\* Dictionary::from_os_dict(), /usr/share/dict/words holding `lines`.
FromOsDict(lines) ==
    /\ status = "dict"
    /\ words' = from_os_dict(lines)
    /\ status' = "loaded"
    /\ UNCHANGED <<square, stack, ret, errAt, square0, firstExhausted, touched,
                   template, found>>

\* dict.search_with_template(t).
SearchWithTemplate(t) ==
    /\ status \in {"loaded", "searched"}
    /\ template' = t
    /\ found' = search_with_template(words, t)
    /\ status' = "searched"
    /\ UNCHANGED <<words, square, stack, ret, errAt, square0, firstExhausted,
                   touched>>

DictNext ==
    \/ \E lines \in SUBSET LinePool : FromFile(lines)
    \/ \E lines \in SUBSET LinePool : FromOsDict(lines)
    \/ \E t \in Templates : SearchWithTemplate(t)

DictSpec == DictInit /\ [][DictNext]_vars

\* ------------------------------------------------------ reference notions
Rows(sq) == Len(sq)
Cols(sq) == IF Len(sq) = 0 THEN 0 ELSE Len(sq[1])

\* fill() has returned a value.
Returned == status \in {"Ok", "Err"}
\* fill() is over: it returned, or the process aborted.
Over == status \in {"Ok", "Err", "panic"}

\* A word that can stand in a row: it agrees with the pre-set cells and has
\* one of the letters a..z in every wildcard cell.
FitsRow(word, row) ==
    /\ Len(word) = Len(row)
    /\ \A i \in 1..Len(row) :
          IF row[i] = Wildcard THEN word[i] \in Letters ELSE word[i] = row[i]

\* The completions of a grid: letters a..z in the wildcard cells, the pre-set
\* cells kept, every row and every column a dictionary word.
Completions(dict, sq) ==
    {g \in [1..Rows(sq) -> dict] :
        /\ \A r \in 1..Rows(sq) : FitsRow(g[r], sq[r])
        /\ \A c \in 0..(Cols(sq) - 1) : get_col(g, c) \in dict}

\* A grid read as one string in row-major order.
RECURSIVE Flatten(_)
Flatten(sq) == IF sq = <<>> THEN <<>> ELSE Head(sq) \o Flatten(Tail(sq))

\* s <= t in the lexicographic order, for strings of one length.
LexLeq(s, t) ==
    \/ s = t
    \/ \E i \in 1..Len(s) : s[i] < t[i] /\ \A j \in 1..(i - 1) : s[j] = t[j]

AllWildcard(sq) == \A rc \in Cells(sq) : get(sq, rc[1], rc[2]) = Wildcard

\* ------------------------------------------------------------------ claims

\* C1 (as claimed): if fill() returns success, every row string and every
\* column string of the grid is a member of the dictionary, pre-set rows and
\* columns included.
C1_SolvedGrid ==
    status = "Ok" =>
        /\ \A r \in 0..(Rows(square) - 1) : contains(words, get_row(square, r))
        /\ \A c \in 0..(Cols(square) - 1) : contains(words, get_col(square, c))

\* C2 (as claimed): every cell the caller pre-set before fill() holds that
\* letter in every state of the search and after fill() returns.
C2_HardenedImmutable ==
    status # "init" =>
        \A rc \in Cells(square0) :
            get(square0, rc[1], rc[2]) # Wildcard =>
                get(square, rc[1], rc[2]) = get(square0, rc[1], rc[2])

\* C3: if fill() returns an error, every cell that was a wildcard when fill()
\* was called holds the wildcard again.
C3_FailureRestores ==
    status = "Err" =>
        \A rc \in Cells(square0) :
            get(square0, rc[1], rc[2]) = Wildcard =>
                get(square, rc[1], rc[2]) = Wildcard

\* C3's case: fill() failed after the search had written a letter into a cell.
C3_Witness == status = "Err" /\ touched # {}

\* C4 (as claimed): whenever the grid given to fill() has a completion,
\* fill() returns success.
C4_Complete ==
    (Over /\ Completions(words, square0) # {}) => status = "Ok"

\* C5 (as claimed): fill() never aborts the process, and on a grid without a
\* wildcard cell it returns success.
C5_NoAbort ==
    /\ status # "panic"
    /\ (Over /\ find_first_empty_square(square0) = None) => status = "Ok"

\* C6 (as claimed): search_with_template(t) returns exactly the stored words
\* of t's number of characters whose character equals t's, ignoring case, at
\* every position where t has no wildcard.
C6_TemplateMatch ==
    status = "searched" =>
        found = {w \in words :
                    /\ Len(w) = Len(template)
                    /\ \A i \in 1..Len(template) :
                          \/ template[i] = Wildcard
                          \/ CharToLower(template[i]) = CharToLower(w[i])}

\* C7 (as claimed): a call of fill() eventually returns success or failure.
C7_Terminates == (status = "running") ~> Returned

\* C8 (as claimed): the coordinates of the error fill() returns are those of
\* the first cell at which the search exhausted all letters.
C8_FirstUnfillable == status = "Err" => errAt = firstExhausted

\* C8 (amended): the coordinates of the error fill() returns are those of the
\* cell the search started at, the first wildcard cell in row-major order of
\* the grid given to fill().
C8_ErrAtStartCell ==
    status = "Err" => errAt = find_first_empty_square(square0)

\* C8's case: fill() failed, and the first cell to exhaust its letters was
\* not the one the error names.
C8_Witness ==
    status = "Err" /\ firstExhausted # None /\ firstExhausted # errAt

\* C9 (as claimed): at most rows * cols fill_helper invocations are active.
C9_DepthBound == Len(stack) <= Rows(square) * Cols(square)

\* C9 (amended): at most rows * cols + rows + 1 fill_helper invocations are
\* active: one per cell, one per end of row, one for the end of the square.
C9_DepthBoundFrames ==
    Len(stack) <= Rows(square) * Cols(square) + Rows(square) + 1

\* C9's case: the amended bound is met, on a grid that has cells.
C9_Witness ==
    /\ Cells(square) # {}
    /\ Len(stack) = Rows(square) * Cols(square) + Rows(square) + 1

\* C10: when fill() succeeds on a grid that was all wildcards, with at least
\* one row and one column, the grid is the least, in row-major lexicographic
\* order, of the grids over a..z whose rows and columns are dictionary words.
C10_LexLeast ==
    (status = "Ok" /\ AllWildcard(square0) /\ Cells(square0) # {}) =>
        /\ square \in Completions(words, square0)
        /\ \A g \in Completions(words, square0) :
              LexLeq(Flatten(square), Flatten(g))

\* C10's case: fill() succeeded on an all-wildcard grid that has more than
\* one valid filling.
C10_Witness ==
    /\ status = "Ok" /\ AllWildcard(square0) /\ Cells(square0) # {}
    /\ Cardinality(Completions(words, square0)) >= 2

\* Every call of fill() ends: it returns, or it aborts at the unwrap().
EndsOrAborts == (status = "running") ~> Over

====
